---- MODULE Spec2Model ----
(***************************************************************************)
(* Model of the SF Preflight VS Code extension: the file template          *)
(* provisioners and their manager, the dependency probes with the shell    *)
(* helpers they sit on, the health-check orchestrator, the startup policy  *)
(* and the status bar presenter.                                           *)
(*                                                                         *)
(* Texts (file contents, command output) are sequences of tokens; the      *)
(* string operations of the code (includes, replace, trim, match, split,   *)
(* parseInt) are operators on those sequences.                             *)
(***************************************************************************)
EXTENDS Integers, Sequences, FiniteSets, TLC

VARIABLES
  workspaceFolders, \* vscode.workspace.workspaceFolders: <<>> is undefined, else one BOOLEAN per root (sfdx-project.json at its top level)
  fs,               \* files under workspaceFolders[0]: path -> [exists, data]
  dirs,             \* directories created under workspaceFolders[0]
  config,           \* sfPreflight.* settings
  broken,           \* paths whose writeFile rejects (read-only / locked target)
  lastOp,           \* what the last provisioning call did and returned
  globalState,      \* context.globalState (persisted preflight state)
  now,              \* Date.now(), in hours
  statusBar,        \* this.statusBarItem: "none" when not created, else the state shown
  hc,               \* the health check in flight: position, pending dialog, results held
  probe,            \* the last single dependency probe: the runs it was given and what it returned
  extension         \* the Extension object: isSfdxProject, the context key, the handlers in flight

vars == <<workspaceFolders, fs, dirs, config, broken, lastOp, globalState, now, statusBar, hc, probe, extension>>

provVars   == <<workspaceFolders, fs, dirs, config, broken, lastOp>>
healthVars == <<globalState, now, statusBar, hc, probe, extension>>

-----------------------------------------------------------------------------
(* Bounds *)

MaxLen == 2          \* longest user-written cspell.json, in tokens
MaxPreexisting == 1  \* managed files present in the root before the extension runs
MaxCalls == 2        \* direct execute calls in a row
MaxOut == 3          \* longest command output given to a single probe, in tokens
MaxNow == 3          \* the clock stops here
MaxTasks == 2        \* handlers in flight at once
MaxFixRounds == 2    \* times the user answers "Fix Issues" within one check

-----------------------------------------------------------------------------
(* Generic sequence helpers *)

RECURSIVE IndexFrom(_, _, _)
IndexFrom(s, t, i) ==
  IF i > Len(s) THEN 0
  ELSE IF s[i] = t THEN i
  ELSE IndexFrom(s, t, i + 1)

\* String.prototype.includes for a one-token needle
Includes(s, t) == IndexFrom(s, t, 1) # 0

\* String.prototype.replace(string, string): only the FIRST occurrence
ReplaceFirst(s, a, b) ==
  LET i == IndexFrom(s, a, 1) IN
  IF i = 0 THEN s
  ELSE [k \in 1..Len(s) |-> IF k = i THEN b ELSE s[k]]

RECURSIVE Concat(_)
Concat(ss) == IF ss = <<>> THEN <<>> ELSE Head(ss) \o Concat(Tail(ss))

Range(s) == {s[i] : i \in 1..Len(s)}

RECURSIVE SeqsUpTo(_, _)
SeqsUpTo(S, n) ==
  IF n = 0 THEN {<<>>}
  ELSE LET shorter == SeqsUpTo(S, n - 1) IN
       shorter \cup {Append(s, t) : s \in {u \in shorter : Len(u) = n - 1}, t \in S}

-----------------------------------------------------------------------------
(* Managed files and templates *)

PRETTIERRC     == ".prettierrc"
PRETTIERIGNORE == ".prettierignore"
EDITORCONFIG   == ".editorconfig"
GITIGNORE      == ".gitignore"
VSCODESETTINGS == ".vscode/settings.json"
CSPELLJSON     == "cspell.json"
DICTIONARY     == ".cspell/salesforce-terms.txt"

Paths == {PRETTIERRC, PRETTIERIGNORE, EDITORCONFIG, GITIGNORE, VSCODESETTINGS, CSPELLJSON, DICTIONARY}

\* the two regex literals as they appear in the text of cspell.json
badRegex  == "bad"
goodRegex == "good"

\* JSON.stringify(defaultConfig, null, 2): the default config, which carries the corrected regex
defaultConfig == <<"cspell-head", goodRegex, "cspell-tail">>

STANDARD_PRETTIER_RC       == <<"std-prettierrc">>
STANDARD_PRETTIER_IGNORE   == <<"std-prettierignore">>
STANDARD_EDITOR_CONFIG     == <<"std-editorconfig">>
STANDARD_GITIGNORE_CONTENT == <<"std-gitignore">>
STANDARD_VSCODE_SETTINGS   == <<"std-vscode-settings">>
SALESFORCE_TERMS           == <<"sf-terms">>

TemplateKeys == {"prettierrc", "prettierignore", "editorConfig", "vscodeSettings"}

\* Provisioner.getConfig(key, defaultValue): the setting when set, else the default
getConfig(cfg, key, defaultValue) ==
  IF cfg.templates[key] # <<>> THEN cfg.templates[key] ELSE defaultValue

\* registration order of setupProvisioning
Provisioners == <<"spellChecker", "gitIgnore", "prettier", "editorConfig", "vscodeSettings">>
ProvisionerSet == Range(Provisioners)

Managed(p) ==
  CASE p = "spellChecker"   -> {CSPELLJSON, DICTIONARY}
    [] p = "gitIgnore"      -> {GITIGNORE}
    [] p = "prettier"       -> {PRETTIERRC, PRETTIERIGNORE}
    [] p = "editorConfig"   -> {EDITORCONFIG}
    [] p = "vscodeSettings" -> {VSCODESETTINGS}

\* the content a provisioner writes for a path under the current settings
Template(cfg, path) ==
  CASE path = PRETTIERRC     -> getConfig(cfg, "prettierrc", STANDARD_PRETTIER_RC)
    [] path = PRETTIERIGNORE -> getConfig(cfg, "prettierignore", STANDARD_PRETTIER_IGNORE)
    [] path = EDITORCONFIG   -> getConfig(cfg, "editorConfig", STANDARD_EDITOR_CONFIG)
    [] path = GITIGNORE      -> STANDARD_GITIGNORE_CONTENT
    [] path = VSCODESETTINGS -> getConfig(cfg, "vscodeSettings", STANDARD_VSCODE_SETTINGS)
    [] path = CSPELLJSON     -> defaultConfig
    [] path = DICTIONARY     -> SALESFORCE_TERMS

Absent == [exists |-> FALSE, data |-> <<>>]
File(d) == [exists |-> TRUE, data |-> d]

\* what a user may have put at a managed path before the extension runs
UserContents(path) ==
  IF path = CSPELLJSON
  THEN SeqsUpTo({badRegex, "x"}, MaxLen) \cup {defaultConfig}
  ELSE {<<"x">>, Template([templates |-> [k \in TemplateKeys |-> <<>>]], path)}

-----------------------------------------------------------------------------
(* Provisioners.  Each execute takes the workspace, the settings, the files *)
(* and directories before the call and the force flag, and gives the files  *)
(* and directories after it, the value it returns (retDefined = FALSE when  *)
(* the promise resolves to undefined), whether it rejected, and the         *)
(* notifications it showed itself.                                          *)

Outcome(f, d, ret, retDefined, threw, notes) ==
  [fs |-> f, dirs |-> d, ret |-> ret, retDefined |-> retDefined, threw |-> threw, notes |-> notes]

\* vscode.workspace.fs.writeFile
writeFile(f, path, data) == [f EXCEPT ![path] = File(data)]

\* .prettierrc rewritten on every call
PrettierCreateRcAlways(force, f) == TRUE

\* the stat / catch idiom: create when forced or when stat rejects
PrettierCreateRc(force, f) == force \/ ~f[PRETTIERRC].exists

PrettierCreateIgnore(force, f) == force \/ ~f[PRETTIERIGNORE].exists

PrettierExecute(wf, cfg, brk, f, d, force) ==
  IF wf = <<>>
  THEN Outcome(f, d, <<>>, FALSE, TRUE, <<>>)      \* workspaceFolders[0] of undefined
  ELSE
    LET createRc == PrettierCreateRc(force, f)
        rcFails  == createRc /\ PRETTIERRC \in brk
        f1       == IF createRc /\ ~rcFails
                    THEN writeFile(f, PRETTIERRC, getConfig(cfg, "prettierrc", STANDARD_PRETTIER_RC))
                    ELSE f
        created1 == IF createRc THEN <<PRETTIERRC>> ELSE <<>>
        createIgnore == PrettierCreateIgnore(force, f1)
        ignoreFails  == createIgnore /\ PRETTIERIGNORE \in brk
        f2       == IF createIgnore /\ ~ignoreFails
                    THEN writeFile(f1, PRETTIERIGNORE, getConfig(cfg, "prettierignore", STANDARD_PRETTIER_IGNORE))
                    ELSE f1
        created2 == IF createIgnore THEN Append(created1, PRETTIERIGNORE) ELSE created1
    IN  IF rcFails THEN Outcome(f, d, <<>>, FALSE, TRUE, <<>>)
        ELSE IF ignoreFails THEN Outcome(f1, d, <<>>, FALSE, TRUE, <<>>)
        ELSE Outcome(f2, d, created2, TRUE, FALSE, <<>>)

GitIgnoreCreate(force, f) == force \/ ~f[GITIGNORE].exists

GitIgnoreExecute(wf, cfg, brk, f, d, force) ==
  IF wf = <<>> \/ Len(wf) = 0                      \* !workspaceFolders || length === 0
  THEN Outcome(f, d, <<>>, TRUE, FALSE, <<>>)
  ELSE IF ~GitIgnoreCreate(force, f)
  THEN Outcome(f, d, <<>>, TRUE, FALSE, <<>>)      \* ".gitignore already exists. Skipping."
  ELSE IF GITIGNORE \in brk
  THEN Outcome(f, d, <<>>, FALSE, TRUE, <<>>)
  ELSE Outcome(writeFile(f, GITIGNORE, STANDARD_GITIGNORE_CONTENT), d, <<GITIGNORE>>, TRUE, FALSE, <<>>)

EditorConfigCreate(force, f) == force \/ ~f[EDITORCONFIG].exists

EditorConfigExecute(wf, cfg, brk, f, d, force) ==
  IF wf = <<>>
  THEN Outcome(f, d, <<>>, TRUE, FALSE, <<>>)
  ELSE IF ~EditorConfigCreate(force, f)
  THEN Outcome(f, d, <<>>, TRUE, FALSE, <<>>)
  ELSE IF EDITORCONFIG \in brk
  THEN Outcome(f, d, <<>>, FALSE, TRUE, <<>>)
  ELSE Outcome(writeFile(f, EDITORCONFIG, getConfig(cfg, "editorConfig", STANDARD_EDITOR_CONFIG)),
               d, <<EDITORCONFIG>>, TRUE, FALSE, <<>>)

\* VsCodeSettingsProvisioner.execute() declares no parameter: `force` is not
\* bound anywhere in the module, so reading it raises a ReferenceError
VsCodeForceBound == FALSE

VsCodeSettingsExecute(wf, cfg, brk, f, d, force) ==
  IF wf = <<>>
  THEN Outcome(f, d, <<>>, FALSE, FALSE, <<>>)     \* bare `return;`
  ELSE
    LET d1 == d \cup {".vscode"}                   \* createDirectory, its own errors ignored
    IN  IF ~VsCodeForceBound
        THEN Outcome(f, d1, <<>>, TRUE, FALSE, <<>>)   \* `let create = force` throws, outer catch logs, return []
        ELSE IF ~(force \/ ~f[VSCODESETTINGS].exists)
        THEN Outcome(f, d1, <<>>, TRUE, FALSE, <<>>)
        ELSE IF VSCODESETTINGS \in brk
        THEN Outcome(f, d1, <<>>, TRUE, FALSE, <<>>)   \* writeFile rejects inside the outer try
        ELSE Outcome(writeFile(f, VSCODESETTINGS, getConfig(cfg, "vscodeSettings", STANDARD_VSCODE_SETTINGS)),
                     d1, <<VSCODESETTINGS>>, TRUE, FALSE, <<>>)

MIGRATED == "cspell.json (migrated)"

SpellCreateConfig(force, f) == force \/ ~f[CSPELLJSON].exists

SpellCreateDict(force, f) == force \/ ~f[DICTIONARY].exists

\* the migration block: only when the config exists and force is off
SpellMigrates(force, f) ==
  /\ ~SpellCreateConfig(force, f)
  /\ ~force
  /\ Includes(f[CSPELLJSON].data, badRegex)

\* SpellCheckerProvisioner.execute ends without a return statement: createdFiles is dropped
SpellReturnsCreatedFiles == FALSE

SpellCheckerExecute(wf, cfg, brk, f, d, force) ==
  IF wf = <<>>
  THEN Outcome(f, d, <<>>, TRUE, FALSE, <<>>)
  ELSE
    LET createConfig == SpellCreateConfig(force, f)
        migrate      == SpellMigrates(force, f)
        \* a rejected write in the migration is caught and logged there
        migrated     == migrate /\ CSPELLJSON \notin brk
        f1       == IF migrated
                    THEN writeFile(f, CSPELLJSON, ReplaceFirst(f[CSPELLJSON].data, badRegex, goodRegex))
                    ELSE f
        created1 == IF migrated THEN <<MIGRATED>> ELSE <<>>
        configFails == createConfig /\ CSPELLJSON \in brk
        f2       == IF createConfig /\ ~configFails THEN writeFile(f1, CSPELLJSON, defaultConfig) ELSE f1
        created2 == IF createConfig THEN Append(created1, CSPELLJSON) ELSE created1
        createDict == SpellCreateDict(force, f2)
        d1       == IF createDict THEN d \cup {".cspell"} ELSE d
        dictFails == createDict /\ DICTIONARY \in brk
        f3       == IF createDict /\ ~dictFails THEN writeFile(f2, DICTIONARY, SALESFORCE_TERMS) ELSE f2
        notes    == IF createDict THEN <<"dictionary-created">> ELSE <<>>
    IN  IF configFails THEN Outcome(f1, d, <<>>, FALSE, TRUE, <<>>)
        ELSE IF dictFails THEN Outcome(f2, d1, <<>>, FALSE, TRUE, <<>>)
        ELSE IF SpellReturnsCreatedFiles
        THEN Outcome(f3, d1, created2, TRUE, FALSE, notes)
        ELSE Outcome(f3, d1, <<>>, FALSE, FALSE, notes)

\* provisioner.execute(force), by provisioner
Execute(p, wf, cfg, brk, f, d, force) ==
  CASE p = "spellChecker"   -> SpellCheckerExecute(wf, cfg, brk, f, d, force)
    [] p = "gitIgnore"      -> GitIgnoreExecute(wf, cfg, brk, f, d, force)
    [] p = "prettier"       -> PrettierExecute(wf, cfg, brk, f, d, force)
    [] p = "editorConfig"   -> EditorConfigExecute(wf, cfg, brk, f, d, force)
    [] p = "vscodeSettings" -> VsCodeSettingsExecute(wf, cfg, brk, f, d, force)

\* the provisioner's own switch alone
isEnabledOwnSwitch(cfg, p) == cfg.switch[p]

\* Provisioner.isEnabled(): master switch first, then the provisioner's own
isEnabled(cfg, p) ==
  IF ~cfg.master THEN FALSE ELSE cfg.switch[p]


-----------------------------------------------------------------------------
(* ProvisioningManager *)

YES_OVERWRITE == "Yes, Overwrite"
Answers == {YES_OVERWRITE, "Cancel", "dismissed"}

\* the one value of a `const` binding: S is the singleton of the value bound
Only(S) == CHOOSE x \in S : TRUE

\* one iteration of the loop of runProvisioning: try { if (isEnabled) execute } catch { log }
RunOne(acc, p, wf, cfg, brk, force) ==
  IF ~isEnabled(cfg, p) THEN acc
  ELSE Only({ [fs       |-> o.fs,
               dirs     |-> o.dirs,
               all      |-> IF ~o.threw /\ o.retDefined THEN acc.all \o o.ret ELSE acc.all,
               outcomes |-> Append(acc.outcomes,
                                   [prov |-> p, threw |-> o.threw, retDefined |-> o.retDefined,
                                    ret |-> IF o.threw THEN <<>> ELSE o.ret]),
               notes    |-> acc.notes \o o.notes,
               completed |-> acc.completed]
              : o \in {Execute(p, wf, cfg, brk, acc.fs, acc.dirs, force)} })

RECURSIVE RunFrom(_, _, _, _, _, _)
RunFrom(i, acc, wf, cfg, brk, force) ==
  IF i > Len(Provisioners) THEN acc
  ELSE Only({ RunFrom(i + 1, a, wf, cfg, brk, force)
              : a \in {RunOne(acc, Provisioners[i], wf, cfg, brk, force)} })

\* the same loop without the per-provisioner try/catch: the first rejection ends the run
RECURSIVE RunFromFailFast(_, _, _, _, _, _)
RunFromFailFast(i, acc, wf, cfg, brk, force) ==
  IF i > Len(Provisioners) THEN acc
  ELSE Only({ IF Len(a.outcomes) > Len(acc.outcomes) /\ a.outcomes[Len(a.outcomes)].threw
              THEN [a EXCEPT !.completed = FALSE]
              ELSE RunFromFailFast(i + 1, a, wf, cfg, brk, force)
              : a \in {RunOne(acc, Provisioners[i], wf, cfg, brk, force)} })

runProvisioningFailFast(wf, cfg, brk, f, d, force) ==
  RunFromFailFast(1, [fs |-> f, dirs |-> d, all |-> <<>>, outcomes |-> <<>>, notes |-> <<>>, completed |-> TRUE],
                  wf, cfg, brk, force)

\* ProvisioningManager.runProvisioning({force}): the loop, then the summary notification
runProvisioning(wf, cfg, brk, f, d, force) ==
  Only({ [acc EXCEPT !.notes = acc.notes \o
                       (IF Len(acc.all) > 0
                        THEN IF force THEN <<"re-provisioned">> ELSE <<"provisioned">>
                        ELSE IF force THEN <<"up-to-date">> ELSE <<>>)]
         : acc \in {RunFrom(1, [fs |-> f, dirs |-> d, all |-> <<>>, outcomes |-> <<>>,
                                notes |-> <<>>, completed |-> TRUE],
                            wf, cfg, brk, force)} })

\* runForce proceeds only on the "Yes, Overwrite" button
ForceConfirmedAlways(answer) == TRUE

ForceConfirmed(answer) == answer = YES_OVERWRITE

-----------------------------------------------------------------------------
(* Record of the last provisioning call *)

NoPrev == [op |-> "none", prov |-> "none", force |-> FALSE, preAbsent |-> FALSE,
           gaveList |-> FALSE, nonEmpty |-> FALSE, legacy |-> FALSE]

NoOp == [op |-> "none", prov |-> "none", force |-> FALSE, answer |-> "none",
         pre |-> {}, preCspell |-> <<>>, fault |-> FALSE,
         ret |-> <<>>, retDefined |-> FALSE, threw |-> FALSE,
         outcomes |-> <<>>, all |-> <<>>, notes |-> <<>>, completed |-> TRUE, ran |-> FALSE,
         calls |-> 0, prev |-> NoPrev]

Existing(f) == {path \in Paths : f[path].exists}

\* what the next call remembers of this one
Summary(o) ==
  IF o.op = "execute"
  THEN [op |-> o.op, prov |-> o.prov, force |-> o.force,
        preAbsent |-> (o.pre \cap Managed(o.prov) = {}) /\ ~o.fault,
        gaveList |-> o.retDefined /\ ~o.threw, nonEmpty |-> o.ret # <<>>,
        legacy |-> CSPELLJSON \in o.pre /\ Includes(o.preCspell, badRegex) /\ ~o.fault]
  ELSE IF o.op = "runOnStartup"
  THEN [op |-> o.op, prov |-> o.prov, force |-> o.force,
        preAbsent |-> o.pre = {} /\ ~o.fault,
        gaveList |-> TRUE, nonEmpty |-> o.all # <<>>, legacy |-> FALSE]
  ELSE NoPrev

-----------------------------------------------------------------------------
(* Provisioning operations *)

\* a direct call of one provisioner's execute(force)
ExecuteCall(p, force) ==
  \E o \in {Execute(p, workspaceFolders, config, broken, fs, dirs, force)} :
  /\ lastOp.calls < MaxCalls
  /\ fs' = o.fs
  /\ dirs' = o.dirs
  /\ lastOp' = [op |-> "execute", prov |-> p, force |-> force, answer |-> "none",
                pre |-> Existing(fs), preCspell |-> fs[CSPELLJSON].data,
                fault |-> broken \cap Managed(p) # {},
                ret |-> IF o.threw THEN <<>> ELSE o.ret, retDefined |-> o.retDefined, threw |-> o.threw,
                outcomes |-> <<>>, all |-> <<>>, notes |-> o.notes, completed |-> ~o.threw, ran |-> TRUE,
                calls |-> lastOp.calls + 1, prev |-> Summary(lastOp)]
  /\ UNCHANGED <<workspaceFolders, config, broken, healthVars>>

RunRecord(name, force, answer, r) ==
  [op |-> name, prov |-> "all", force |-> force, answer |-> answer,
   pre |-> Existing(fs), preCspell |-> fs[CSPELLJSON].data,
   fault |-> broken # {},
   ret |-> <<>>, retDefined |-> FALSE, threw |-> ~r.completed,
   outcomes |-> r.outcomes, all |-> r.all, notes |-> r.notes, completed |-> r.completed, ran |-> TRUE,
   calls |-> 0, prev |-> Summary(lastOp)]

\* ProvisioningManager.runOnStartup()
RunOnStartup ==
  \E r \in {runProvisioning(workspaceFolders, config, broken, fs, dirs, FALSE)} :
  /\ fs' = r.fs
  /\ dirs' = r.dirs
  /\ lastOp' = RunRecord("runOnStartup", FALSE, "none", r)
  /\ UNCHANGED <<workspaceFolders, config, broken, healthVars>>

\* ProvisioningManager.runForce(), with the user's answer to the confirmation
RunForce(answer) ==
  IF ForceConfirmed(answer)
  THEN \E r \in {runProvisioning(workspaceFolders, config, broken, fs, dirs, TRUE)} :
       /\ fs' = r.fs
       /\ dirs' = r.dirs
       /\ lastOp' = RunRecord("runForce", TRUE, answer, [r EXCEPT !.notes = <<"confirm-overwrite">> \o r.notes])
       /\ UNCHANGED <<workspaceFolders, config, broken, healthVars>>
  ELSE /\ lastOp' = [NoOp EXCEPT !.op = "runForce", !.prov = "all", !.force = TRUE, !.answer = answer,
                          !.pre = Existing(fs), !.preCspell = fs[CSPELLJSON].data,
                          !.notes = <<"confirm-overwrite">>]
       /\ UNCHANGED <<workspaceFolders, fs, dirs, config, broken, healthVars>>


-----------------------------------------------------------------------------
(* Shell helpers.  A run is what the external process did: ok (exit 0) with *)
(* its stdout and stderr.                                                   *)

WS == " "

RECURSIVE TrimLeft(_)
TrimLeft(s) == IF s # <<>> /\ Head(s) = WS THEN TrimLeft(Tail(s)) ELSE s

RECURSIVE TrimRight(_)
TrimRight(s) == IF s # <<>> /\ s[Len(s)] = WS THEN TrimRight(SubSeq(s, 1, Len(s) - 1)) ELSE s

\* String.prototype.trim
Trim(s) == TrimRight(TrimLeft(s))

REQUIRED_PACKAGES == <<"@salesforce/cli", "prettier", "@prettier/plugin-xml", "prettier-plugin-apex">>
REQUIRED_SF_PLUGINS == <<"@salesforce/sfdx-scanner", "code-analyzer">>
ALTERNATIVE_APEX == "@ilyamatsuev/prettier-plugin-apex"

CMD_NODE     == <<"node", "--version">>
CMD_JAVA     == <<"java", "-version", "2>&1">>
CMD_WHICH    == <<"which", "java">>
CMD_SF       == <<"sf", "--version">>
CMD_NPM_LIST == <<"npm", "list", "-g">> \o REQUIRED_PACKAGES \o <<"2>&1">>
CMD_PLUGINS  == <<"sf", "plugins">>

\* the message child_process.exec gives a failed command: the command line, then stderr
ExecErrorMessage(cmd, run) == <<"Command failed:">> \o cmd \o run.stderr

\* execCommand: trimmed stdout, or a rejection whose message is the raw stdout when there is any
execCommand(cmd, run) ==
  IF run.ok
  THEN [threw |-> FALSE, value |-> Trim(run.stdout), message |-> <<>>]
  ELSE [threw |-> TRUE, value |-> <<>>,
        message |-> IF run.stdout # <<>> THEN run.stdout ELSE ExecErrorMessage(cmd, run)]

\* execCommandFull: never rejects
execCommandFull(cmd, run) ==
  IF run.ok
  THEN [stdout |-> Trim(run.stdout), stderr |-> Trim(run.stderr)]
  ELSE [stdout |-> Trim(run.stdout),
        stderr |-> IF Trim(run.stderr) # <<>> THEN Trim(run.stderr) ELSE ExecErrorMessage(cmd, run)]

-----------------------------------------------------------------------------
(* Text operations of the probes *)

NaN == -1

MIN_NODE == 18
MIN_JAVA == 11

NumberTokens == {"0", "1", "8", "11", "16", "17", "18", "20"}

NumVal(t) ==
  CASE t = "0" -> 0 [] t = "1" -> 1 [] t = "8" -> 8 [] t = "11" -> 11
    [] t = "16" -> 16 [] t = "17" -> 17 [] t = "18" -> 18 [] t = "20" -> 20

\* parseInt: the leading number of the text, NaN when it does not start with one
parseInt(s) == IF s # <<>> /\ Head(s) \in NumberTokens THEN NumVal(Head(s)) ELSE NaN

\* s.split(".")[0]
SplitFirst(s, sep) ==
  LET i == IndexFrom(s, sep, 1) IN IF i = 0 THEN s ELSE SubSeq(s, 1, i - 1)

\* s.replace(t, ""): drops the first occurrence of t
RemoveFirst(s, t) ==
  LET i == IndexFrom(s, t, 1) IN
  IF i = 0 THEN s ELSE SubSeq(s, 1, i - 1) \o SubSeq(s, i + 1, Len(s))

VERSION_QUOTE == "version \""
QUOTE == "\""

\* /version "(.+?)"/ : the leftmost `version "` that is followed by at least one
\* token and then a quote; the group ends at the first such quote
JavaMatchStarts(s) ==
  {i \in 1..Len(s) : s[i] = VERSION_QUOTE /\ \E j \in (i + 2)..Len(s) : s[j] = QUOTE}

Min(S) == CHOOSE x \in S : \A y \in S : x <= y

JavaVersionMatch(s) ==
  IF JavaMatchStarts(s) = {} THEN [matched |-> FALSE, group |-> <<>>]
  ELSE LET i == Min(JavaMatchStarts(s))
           j == Min({k \in (i + 2)..Len(s) : s[k] = QUOTE})
       IN  [matched |-> TRUE, group |-> SubSeq(s, i + 1, j - 1)]

CLI_PREFIX == "@salesforce/cli/"

\* /@salesforce\/cli\/(\d+\.\d+\.\d+)/
CliMatchStarts(s) ==
  {i \in 1..Len(s) : /\ i + 5 <= Len(s)
                     /\ s[i] = CLI_PREFIX
                     /\ s[i + 1] \in NumberTokens /\ s[i + 2] = "."
                     /\ s[i + 3] \in NumberTokens /\ s[i + 4] = "."
                     /\ s[i + 5] \in NumberTokens}

CliVersionMatch(s) ==
  IF CliMatchStarts(s) = {} THEN [matched |-> FALSE, group |-> <<>>]
  ELSE LET i == Min(CliMatchStarts(s)) IN [matched |-> TRUE, group |-> SubSeq(s, i + 1, i + 5)]

\* the required identifiers that occur inside a token as a substring
IdentifiersIn(token) ==
  CASE token = "@salesforce/cli"            -> {"@salesforce/cli"}
    [] token = "prettier"                   -> {"prettier"}
    [] token = "@prettier/plugin-xml"       -> {"@prettier/plugin-xml", "prettier"}
    [] token = "prettier-plugin-apex"       -> {"prettier-plugin-apex", "prettier"}
    [] token = ALTERNATIVE_APEX             -> {ALTERNATIVE_APEX, "prettier-plugin-apex", "prettier"}
    [] token = "@salesforce/sfdx-scanner"   -> {"@salesforce/sfdx-scanner"}
    [] token = "code-analyzer"              -> {"code-analyzer"}
    [] token = "@salesforce/plugin-code-analyzer" -> {"code-analyzer"}
    [] token = CLI_PREFIX                   -> {"@salesforce/cli"}
    [] OTHER                                -> {}

\* text.includes(identifier): substring containment
IncludesText(text, id) == \E i \in 1..Len(text) : id \in IdentifiersIn(text[i])

-----------------------------------------------------------------------------
(* Dependency probes.  A status record lists in `fields` the properties the *)
(* returned object has; a property it lacks reads as undefined (falsy).     *)

Status(fields, installed, version, majorVersion, valid, error) ==
  [kind |-> "status", fields |-> fields, installed |-> installed, version |-> version,
   majorVersion |-> majorVersion, valid |-> valid, error |-> error,
   path |-> <<>>, installedList |-> <<>>, missing |-> <<>>, allInstalled |-> FALSE]

SetStatus(fields, installedList, missing, error) ==
  [kind |-> "set", fields |-> fields, installed |-> TRUE, version |-> <<>>,
   majorVersion |-> NaN, valid |-> FALSE, error |-> error,
   path |-> <<>>, installedList |-> installedList, missing |-> missing,
   allInstalled |-> missing = <<>>]

\* the catch branch of checkNodeJS
NodeFailure(message) == Status({"installed", "valid", "error"}, FALSE, <<>>, NaN, FALSE, message)

checkNodeJS(run) ==
  LET r == execCommand(CMD_NODE, run) IN
  IF r.threw THEN NodeFailure(r.message)
  ELSE LET version == RemoveFirst(r.value, "v")
           majorVersion == parseInt(SplitFirst(version, "."))
       IN  Status({"installed", "version", "majorVersion", "valid"},
                  TRUE, version, majorVersion, majorVersion >= MIN_NODE, <<>>)

\* getJavaPath: first line of `which java`, null on failure
getJavaPath(whichRun) ==
  LET r == execCommand(CMD_WHICH, whichRun) IN
  IF r.threw THEN <<>> ELSE SplitFirst(r.value, "\n")

checkJava(run, whichRun) ==
  LET out == execCommandFull(CMD_JAVA, run)
      m   == JavaVersionMatch(out.stdout)
  IN  IF m.matched
      THEN LET majorVersion == parseInt(SplitFirst(m.group, ".")) IN
           [Status({"installed", "version", "majorVersion", "valid", "path"},
                   TRUE, m.group, majorVersion, majorVersion >= MIN_JAVA, <<>>)
            EXCEPT !.path = getJavaPath(whichRun)]
      ELSE Status({"installed", "valid"}, FALSE, <<>>, NaN, FALSE, <<>>)

\* a catch branch that drops the message
CliFailureNoError(message) == Status({"installed"}, FALSE, <<>>, NaN, FALSE, <<>>)

\* the catch branch of checkSalesforceCLI
CliFailure(message) == Status({"installed", "error"}, FALSE, <<>>, NaN, FALSE, message)

checkSalesforceCLI(run) ==
  LET r == execCommand(CMD_SF, run) IN
  IF r.threw THEN CliFailure(r.message)
  ELSE LET m == CliVersionMatch(r.value) IN
       IF m.matched
       THEN Status({"installed", "version", "output"}, TRUE, m.group, NaN, FALSE, <<>>)
       ELSE Status({"installed", "version", "output"}, TRUE, <<"unknown">>, NaN, FALSE, <<>>)

SelectIncluded(ids, text) == SelectSeq(ids, LAMBDA id : IncludesText(text, id))
SelectNotIncluded(ids, text) == SelectSeq(ids, LAMBDA id : ~IncludesText(text, id))

parsePackageOutput(stdout) ==
  LET installed == SelectIncluded(REQUIRED_PACKAGES, stdout)
      missing   == SelectNotIncluded(REQUIRED_PACKAGES, stdout)
      alt       == /\ IndexFrom(missing, "prettier-plugin-apex", 1) # 0
                   /\ IncludesText(stdout, ALTERNATIVE_APEX)
  IN  IF alt
      THEN SetStatus({"installed", "missing", "allInstalled"},
                     Append(installed, "prettier-plugin-apex (alternative)"),
                     RemoveFirst(missing, "prettier-plugin-apex"), <<>>)
      ELSE SetStatus({"installed", "missing", "allInstalled"}, installed, missing, <<>>)

checkPackages(run) ==
  LET r == execCommand(CMD_NPM_LIST, run) IN
  IF r.threw THEN parsePackageOutput(r.message) ELSE parsePackageOutput(r.value)

\* the catch branch of checkPlugins
PluginsFailure(message) ==
  SetStatus({"installed", "missing", "allInstalled", "error"}, <<>>, REQUIRED_SF_PLUGINS, message)

checkPlugins(run) ==
  LET r == execCommand(CMD_PLUGINS, run) IN
  IF r.threw THEN PluginsFailure(r.message)
  ELSE SetStatus({"installed", "missing", "allInstalled"},
                 SelectIncluded(REQUIRED_SF_PLUGINS, r.value),
                 SelectNotIncluded(REQUIRED_SF_PLUGINS, r.value), <<>>)


-----------------------------------------------------------------------------
(* Health check orchestrator *)

\* isSalesforceDXProject(): some workspace root has sfdx-project.json at its top level
isSalesforceDXProject(wf) == \E i \in 1..Len(wf) : wf[i]

\* the probing pass of runHealthCheck, on the runs the probes get (env)
HealthCheck(env, wf) ==
  [node          |-> checkNodeJS(env.node),
   java          |-> checkJava(env.java, env.which),
   salesforceCLI |-> checkSalesforceCLI(env.cli),
   packages      |-> checkPackages(env.packages),
   sfPlugins     |-> checkPlugins(env.plugins),
   isSFDXProject |-> isSalesforceDXProject(wf),
   cached        |-> FALSE]                         \* no `cached` property is ever set: undefined

\* the object literal runHealthCheck starts from: every dependency null
Null == [Status({}, FALSE, <<>>, NaN, FALSE, <<>>) EXCEPT !.kind = "null"]

NoResults ==
  [node |-> Null, java |-> Null, salesforceCLI |-> Null, packages |-> Null,
   sfPlugins |-> Null, isSFDXProject |-> FALSE, cached |-> FALSE]

\* displayHealthCheckResults: the lines it files under issues and under warnings
DisplayIssues(r) ==
  (IF ~r.node.installed THEN <<"node">> ELSE <<>>)
  \o (IF ~r.salesforceCLI.installed THEN <<"cli">> ELSE <<>>)

DisplayWarnings(r) ==
  (IF r.node.installed /\ ~r.node.valid THEN <<"node">> ELSE <<>>)
  \o (IF ~r.java.installed \/ ~r.java.valid THEN <<"java">> ELSE <<>>)
  \o (IF ~r.packages.allInstalled THEN <<"packages">> ELSE <<>>)
  \o (IF ~r.sfPlugins.allInstalled THEN <<"plugins">> ELSE <<>>)

\* the message displayHealthCheckResults shows
DisplayKind(r) ==
  IF DisplayIssues(r) # <<>> THEN "summary-error"
  ELSE IF DisplayWarnings(r) # <<>> THEN "summary-warning"
  ELSE "summary-info"

\* the remediation prompts with the Salesforce CLI asked before Java
fixEnvironmentIssuesCliFirst(r) ==
  (IF ~r.node.installed \/ ~r.node.valid THEN <<"fix-node">> ELSE <<>>)
  \o (IF ~r.salesforceCLI.installed THEN <<"fix-cli">> ELSE <<>>)
  \o (IF ~r.java.installed \/ ~r.java.valid THEN <<"fix-java">> ELSE <<>>)
  \o (IF ~r.packages.allInstalled THEN <<"fix-packages">> ELSE <<>>)
  \o (IF ~r.sfPlugins.allInstalled THEN <<"fix-plugins">> ELSE <<>>)

\* fixEnvironmentIssues: the remediation prompts, in the order they are awaited
fixEnvironmentIssues(r) ==
  (IF ~r.node.installed \/ ~r.node.valid THEN <<"fix-node">> ELSE <<>>)
  \o (IF ~r.java.installed \/ ~r.java.valid THEN <<"fix-java">> ELSE <<>>)
  \o (IF ~r.salesforceCLI.installed THEN <<"fix-cli">> ELSE <<>>)
  \o (IF ~r.packages.allInstalled THEN <<"fix-packages">> ELSE <<>>)
  \o (IF ~r.sfPlugins.allInstalled THEN <<"fix-plugins">> ELSE <<>>)

-----------------------------------------------------------------------------
(* Status presenter *)

\* hasIssues without the Salesforce CLI test
hasIssuesNoCli(r) ==
  \/ ~r.node.installed
  \/ ~r.packages.allInstalled
  \/ ~r.sfPlugins.allInstalled

\* updateStatusBarWithResults: hasIssues (the same expression is hasCriticalIssues in runStartupCheck)
hasIssues(r) ==
  \/ ~r.node.installed
  \/ ~r.salesforceCLI.installed
  \/ ~r.packages.allInstalled
  \/ ~r.sfPlugins.allInstalled

hasWarnings(r) == ~r.node.valid \/ ~r.java.installed \/ ~r.java.valid

Classify(r) ==
  IF hasIssues(r) THEN "error"
  ELSE IF hasWarnings(r) THEN "warning"
  ELSE "ok"

\* updateStatusBarWithResults(results): nothing without a status bar item
updateStatusBarWithResults(bar, r) == IF bar = "none" THEN bar ELSE Classify(r)

Latest(r) == [class |-> Classify(r), display |-> DisplayKind(r)]

-----------------------------------------------------------------------------
(* Startup policy *)

\* TIME_INTERVALS.RECHECK_AFTER_SUCCESS, 24 hours, in the 12-hour unit of `now`
RECHECK_AFTER_SUCCESS == 2

\* the window compared the wrong way round
FreshInverted(gs, t) ==
  /\ gs.envCheckPassed
  /\ gs.envCheckTimestamp # 0
  /\ t - gs.envCheckTimestamp >= RECHECK_AFTER_SUCCESS

\* lastCheckPassed && lastCheckTimestamp && now - lastCheckTimestamp < RECHECK_AFTER_SUCCESS
Fresh(gs, t) ==
  /\ gs.envCheckPassed
  /\ gs.envCheckTimestamp # 0
  /\ t - gs.envCheckTimestamp < RECHECK_AFTER_SUCCESS

\* the health check in flight.  startup: the results runStartupCheck / updateStatusBar hold and hand
\* to the status bar; results: the results the running runHealthCheck(false) holds; latest: how the
\* most recent completed probing pass classifies; shown, passes, remedies: what the handler has shown
NoLatest == [class |-> "none", display |-> "none"]

Idle == [pc |-> "idle", origin |-> "none", markCompleted |-> FALSE, depth |-> 0, passes |-> 0,
         startup |-> NoResults, results |-> NoResults, latest |-> NoLatest,
         shown |-> {}, remedies |-> <<>>, fresh |-> FALSE]

Dialogs == {"summary-error", "summary-warning", "prompt-check-now", "remediation"}

\* runStartupCheck returns to activate, which passes the results of the silent pass to the status bar
Return(h) ==
  /\ hc' = [h EXCEPT !.pc = "idle", !.results = NoResults, !.remedies = <<>>,
                     !.markCompleted = FALSE, !.depth = 0]
  /\ IF h.origin = "startup"
     THEN /\ statusBar' = updateStatusBarWithResults(statusBar, h.startup)
          /\ globalState' = IF h.markCompleted
                            THEN [globalState EXCEPT !.envCheckCompleted = TRUE]
                            ELSE globalState
     ELSE UNCHANGED <<statusBar, globalState>>

\* the clean branch that leaves ENV_CHECK_COMPLETED as it was
MarkPassedNotCompleted(gs, t) ==
  [gs EXCEPT !.envCheckPassed = TRUE, !.envCheckTimestamp = t]

\* the clean branch that forgets the timestamp
MarkPassedNoTimestamp(gs, t) ==
  [gs EXCEPT !.envCheckPassed = TRUE, !.envCheckCompleted = TRUE]

\* "All good - mark as passed with timestamp"
MarkPassed(gs, t) ==
  [gs EXCEPT !.envCheckPassed = TRUE, !.envCheckTimestamp = t, !.envCheckCompleted = TRUE]

\* the reset left out
ResetPassedNever(gs) == gs

\* "Reset passed state since there are issues"
ResetPassed(gs) == [gs EXCEPT !.envCheckPassed = FALSE]

\* every run taken for the first one
hasRunBeforeNever(gs) == FALSE

\* context.globalState.get(STATE_KEYS.ENV_CHECK_COMPLETED)
hasRunBefore(gs) == gs.envCheckCompleted

\* runStartupCheck(context), as activate calls it, up to its first dialog
StartupCheck(env) ==
  /\ hc.pc = "idle"
  /\ LET r == HealthCheck(env, workspaceFolders)
         h == [Idle EXCEPT !.origin = "startup", !.passes = 1, !.startup = r,
                           !.latest = Latest(r), !.shown = {"progress"}]
     IN  IF Fresh(globalState, now)
         THEN /\ hc' = [h EXCEPT !.fresh = TRUE]
              /\ statusBar' = updateStatusBarWithResults(statusBar, r)
              /\ UNCHANGED globalState
         ELSE IF ~(hasIssues(r) \/ hasWarnings(r))
         THEN /\ globalState' = MarkPassed(globalState, now)
              /\ hc' = h
              /\ statusBar' = updateStatusBarWithResults(statusBar, r)
         ELSE IF ~hasRunBefore(globalState)
         THEN \* first time: a visible check follows, then ENV_CHECK_COMPLETED is set
              /\ globalState' = ResetPassed(globalState)
              /\ hc' = [h EXCEPT !.pc = "pass", !.markCompleted = TRUE]
              /\ UNCHANGED statusBar
         ELSE IF hasIssues(r)
         THEN /\ globalState' = ResetPassed(globalState)
              /\ hc' = [h EXCEPT !.pc = "prompt", !.shown = h.shown \cup {"prompt-check-now"}]
              /\ UNCHANGED statusBar
         ELSE /\ globalState' = ResetPassed(globalState)
              /\ hc' = h
              /\ statusBar' = updateStatusBarWithResults(statusBar, r)
  /\ UNCHANGED <<provVars, extension, now, probe>>

\* the "Check Environment Health" command: runHealthCheck(false)
CheckEnvironment ==
  /\ hc.pc = "idle"
  /\ hc' = [Idle EXCEPT !.origin = "command", !.pc = "pass"]
  /\ UNCHANGED <<provVars, extension, globalState, now, statusBar, probe>>

\* runHealthCheck(false): the probing pass and the summary it displays
VisiblePass(env) ==
  /\ hc.pc = "pass"
  /\ LET r == HealthCheck(env, workspaceFolders)
         h == [hc EXCEPT !.passes = hc.passes + 1, !.results = r, !.latest = Latest(r),
                         !.remedies = <<>>,
                         !.shown = hc.shown \cup {"progress", DisplayKind(r)}]
     IN  IF DisplayKind(r) = "summary-info"
         THEN Return(h)
         ELSE /\ hc' = [h EXCEPT !.pc = "summary"]
              /\ UNCHANGED <<statusBar, globalState>>
  /\ UNCHANGED <<provVars, extension, now, probe>>

\* the user answers the summary: "Fix Issues" runs the remediation prompts and checks again
AnswerSummary(answer) ==
  /\ hc.pc = "summary"
  /\ IF answer = "Fix Issues"
     THEN /\ hc.depth < MaxFixRounds
          /\ hc' = [hc EXCEPT !.pc = "pass", !.depth = hc.depth + 1,
                              !.remedies = fixEnvironmentIssues(hc.results),
                              !.shown = hc.shown \cup {"remediation"}]
          /\ UNCHANGED <<statusBar, globalState>>
     ELSE Return(hc)
  /\ UNCHANGED <<provVars, extension, now, probe>>

\* the user answers "Missing critical dependencies. Run environment check?"
AnswerPrompt(answer) ==
  /\ hc.pc = "prompt"
  /\ IF answer = "Check Now"
     THEN /\ hc' = [hc EXCEPT !.pc = "pass"]
          /\ UNCHANGED <<statusBar, globalState>>
     ELSE Return(hc)
  /\ UNCHANGED <<provVars, extension, now, probe>>

\* time passes between handlers
Tick ==
  /\ hc.pc = "idle"
  /\ now < MaxNow
  /\ now' = now + 1
  /\ UNCHANGED <<provVars, extension, globalState, statusBar, hc, probe>>


\* updateStatusBar(): a silent health check into the status bar, when there is one
UpdateStatusBar(env) ==
  /\ hc.pc = "idle"
  /\ statusBar # "none"
  /\ LET r == HealthCheck(env, workspaceFolders) IN
     /\ hc' = [Idle EXCEPT !.origin = "updateStatusBar", !.passes = 1, !.startup = r,
                           !.latest = Latest(r), !.shown = {"progress"}]
     /\ statusBar' = updateStatusBarWithResults(statusBar, r)
  /\ UNCHANGED <<provVars, extension, globalState, now, probe>>

\* createStatusBar(): the spinner, until the first results
createStatusBar(cfg) == IF cfg.showStatusBar THEN "checking" ELSE "none"

\* the handler of watchConfigChanges for sfPreflight.showStatusBar
ConfigShowStatusBar(value, env) ==
  /\ hc.pc = "idle"
  /\ config.showStatusBar # value
  /\ config' = [config EXCEPT !.showStatusBar = value]
  /\ IF value
     THEN IF statusBar = "none"
          THEN LET r == HealthCheck(env, workspaceFolders) IN
               /\ hc' = [Idle EXCEPT !.origin = "updateStatusBar", !.passes = 1, !.startup = r,
                                     !.latest = Latest(r), !.shown = {"progress"}]
               /\ statusBar' = updateStatusBarWithResults(createStatusBar(config'), r)
          ELSE UNCHANGED <<hc, statusBar>>
     ELSE /\ statusBar' = "none"
          /\ UNCHANGED hc
  /\ UNCHANGED <<workspaceFolders, fs, dirs, broken, lastOp, globalState, now, probe, extension>>

-----------------------------------------------------------------------------
(* Single probes, on any run of their command *)

\* ok: the probe's own command exited with 0; matched: its output holds the version pattern
NoProbe == [kind |-> "none", allFailed |-> FALSE, ok |-> FALSE, matched |-> FALSE, result |-> Null]

ProbeNode(run) ==
  /\ probe' = [kind |-> "node", allFailed |-> ~run.ok, ok |-> run.ok, matched |-> FALSE,
              result |-> checkNodeJS(run)]
  /\ UNCHANGED <<provVars, extension, globalState, now, statusBar, hc>>

ProbeJava(run, whichRun) ==
  /\ probe' = [kind |-> "java", allFailed |-> ~run.ok /\ ~whichRun.ok, ok |-> run.ok,
              matched |-> JavaVersionMatch(Trim(run.stdout)).matched,
              result |-> checkJava(run, whichRun)]
  /\ UNCHANGED <<provVars, extension, globalState, now, statusBar, hc>>

ProbeCli(run) ==
  /\ probe' = [kind |-> "cli", allFailed |-> ~run.ok, ok |-> run.ok,
              matched |-> CliVersionMatch(Trim(run.stdout)).matched,
              result |-> checkSalesforceCLI(run)]
  /\ UNCHANGED <<provVars, extension, globalState, now, statusBar, hc>>

ProbePackages(run) ==
  /\ probe' = [kind |-> "packages", allFailed |-> ~run.ok, ok |-> run.ok, matched |-> FALSE,
              result |-> checkPackages(run)]
  /\ UNCHANGED <<provVars, extension, globalState, now, statusBar, hc>>

ProbePlugins(run) ==
  /\ probe' = [kind |-> "plugins", allFailed |-> ~run.ok, ok |-> run.ok, matched |-> FALSE,
              result |-> checkPlugins(run)]
  /\ UNCHANGED <<provVars, extension, globalState, now, statusBar, hc>>

-----------------------------------------------------------------------------
(* Package and plugin managers.  `gs` is the global state a call starts    *)
(* with; the result is the global state it leaves and the messages shown.  *)
(* `answers` are the replies to the two confirmations and whether the two  *)
(* install commands succeed.                                               *)

Managed_(gs, notes) == [gs |-> gs, notes |-> notes]

\* pluginService.install(context)
install(gs, env, answers) ==
  IF execCommand(CMD_SF, env.cli).threw
  THEN Managed_(gs, <<"error">>)                             \* verifySfCliInstalled throws
  ELSE IF checkPlugins(env.plugins).missing # <<>>
  THEN IF ~answers.confirmPlugins THEN Managed_(gs, <<"confirm">>)
       ELSE IF answers.pluginsInstall THEN Managed_(gs, <<"confirm", "plugins-installed">>)
       ELSE Managed_(gs, <<"confirm", "error">>)
  ELSE IF ~gs.pluginsChecked
  THEN Managed_([gs EXCEPT !.pluginsChecked = TRUE], <<"plugins-complete">>)
  ELSE Managed_(gs, <<>>)

\* managePackages(context), the call of pluginService.install at its end included
managePackages(gs, env, answers) ==
  IF ~checkNodeJS(env.node).installed
  THEN Managed_(gs, <<"error">>)                             \* checkNodeInstallation throws
  ELSE IF checkPackages(env.packages).missing # <<>>
  THEN IF ~answers.confirmPackages THEN Managed_(gs, <<"confirm">>)      \* return
       ELSE IF ~answers.packagesInstall THEN Managed_(gs, <<"confirm", "error">>)
       ELSE Managed_(install(gs, env, answers).gs,
                     <<"confirm", "packages-installed">> \o install(gs, env, answers).notes)
  ELSE IF ~gs.packagesChecked
  THEN Managed_(install([gs EXCEPT !.packagesChecked = TRUE], env, answers).gs,
                <<"packages-present">>
                  \o install([gs EXCEPT !.packagesChecked = TRUE], env, answers).notes)
  ELSE install(gs, env, answers)

\* a reset that also forgets the passed environment check
forceResetAll(gs) ==
  [gs EXCEPT !.packagesChecked = FALSE, !.pluginsChecked = FALSE, !.envCheckPassed = FALSE]

\* the two updates forceCheckPackages starts with
forceReset(gs) == [gs EXCEPT !.packagesChecked = FALSE, !.pluginsChecked = FALSE]

\* the last manager called, and whether it ended with an error message
Managing(kind, m) ==
  [kind |-> kind, allFailed |-> FALSE, ok |-> m.notes = <<>> \/ m.notes[Len(m.notes)] # "error",
   matched |-> FALSE, result |-> Null]

ManagePackages(env, answers) ==
  /\ globalState' = managePackages(globalState, env, answers).gs
  /\ probe' = Managing("managePackages", managePackages(globalState, env, answers))
  /\ UNCHANGED <<provVars, extension, now, statusBar, hc>>

ForceCheckPackages(env, answers) ==
  /\ globalState' = managePackages(forceReset(globalState), env, answers).gs
  /\ probe' = Managing("forceCheckPackages", managePackages(forceReset(globalState), env, answers))
  /\ UNCHANGED <<provVars, extension, now, statusBar, hc>>

PluginInstall(env, answers) ==
  /\ globalState' = install(globalState, env, answers).gs
  /\ probe' = Managing("install", install(globalState, env, answers))
  /\ UNCHANGED <<provVars, extension, now, statusBar, hc>>

-----------------------------------------------------------------------------
(* Project detector.  What a root's sfdx-project.json holds is read when   *)
(* asked: kind "absent" (readFile rejects), "malformed" (not JSON), "null" *)
(* (the JSON text null) or "object", with the properties of `fields`.      *)

Descriptor(kind, fields, name) ==
  [kind |-> kind, fields |-> fields, name |-> name,
   namespace |-> IF "namespace" \in fields THEN "ns" ELSE "",
   sourceApiVersion |-> IF "sourceApiVersion" \in fields THEN "60.0" ELSE "",
   packageDirectories |-> IF "packageDirectories" \in fields THEN <<"force-app">> ELSE <<>>]

\* a parser that answers an empty object for text that is not JSON
JSONparseLenient(d) ==
  IF d.kind = "malformed" THEN [threw |-> FALSE, value |-> Descriptor("object", {}, "")]
  ELSE [threw |-> FALSE, value |-> d]

\* JSON.parse(content): throws a SyntaxError on text that is not JSON
JSONparse(d) ==
  IF d.kind = "malformed" THEN [threw |-> TRUE, value |-> d]
  ELSE [threw |-> FALSE, value |-> d]

\* projectData.<property> || defaultValue, for a string property
OrDefault(has, value, defaultValue) == IF ~has \/ value = "" THEN defaultValue ELSE value

NullInfo ==
  [isNull |-> TRUE, path |-> 0, name |-> "", namespace |-> "", sourceApiVersion |-> "",
   packageDirectories |-> <<>>]

\* the object literal getSalesforceProjectInfo returns for root i
ProjectInfo(i, data) ==
  [isNull |-> FALSE, path |-> i,
   name |-> OrDefault("name" \in data.fields, data.name, "Unnamed Project"),
   namespace |-> OrDefault("namespace" \in data.fields, data.namespace, ""),
   sourceApiVersion |-> OrDefault("sourceApiVersion" \in data.fields, data.sourceApiVersion, "unknown"),
   packageDirectories |-> IF "packageDirectories" \in data.fields THEN data.packageDirectories ELSE <<>>]

\* the loop over the roots from root i on: the first descriptor that reads and parses wins
RECURSIVE InfoFrom(_, _)
InfoFrom(i, ds) ==
  IF i > Len(ds) THEN NullInfo
  ELSE IF ds[i].kind = "absent" THEN InfoFrom(i + 1, ds)           \* readFile rejects
  ELSE IF JSONparse(ds[i]).threw THEN InfoFrom(i + 1, ds)          \* caught: continue checking
  ELSE IF JSONparse(ds[i]).value.kind = "null" THEN InfoFrom(i + 1, ds)   \* null.name: TypeError, caught
  ELSE ProjectInfo(i, JSONparse(ds[i]).value)

\* getSalesforceProjectInfo(), on what the descriptors of the roots hold
getSalesforceProjectInfo(wf, ds) == IF wf = <<>> THEN NullInfo ELSE InfoFrom(1, ds)

\* the showProjectInfo command: the message it ends with
ShowProjectInfo(ds) ==
  /\ probe' = [kind |-> "projectInfo", allFailed |-> FALSE, ok |-> FALSE, matched |-> FALSE,
               result |-> [descriptors |-> ds,
                           info |-> getSalesforceProjectInfo(workspaceFolders, ds),
                           shown |-> IF ~isSalesforceDXProject(workspaceFolders) THEN "not-a-project"
                                     ELSE IF getSalesforceProjectInfo(workspaceFolders, ds).isNull
                                     THEN "unable-to-read"
                                     ELSE "project-details"]]
  /\ UNCHANGED <<provVars, extension, globalState, now, statusBar, hc>>

-----------------------------------------------------------------------------
(* Activation *)

\* a handler in flight and the await it is suspended at
Task(handler, pc) == [handler |-> handler, pc |-> pc]

\* the Extension object after its constructor
NoExtension == [isSfdxProject |-> FALSE, projectOpened |-> FALSE, tasks |-> <<>>]

\* the root every provisioner writes under: `workspaceFolders[0].uri`, as an index from 1
rootUri(wf) == 1

\* activate(), its provisioning step: runOnStartup() when a project was detected
ActivateProvisioning ==
  /\ isSalesforceDXProject(workspaceFolders)
  /\ RunOnStartup

\* activate() on a machine whose environment is `env`, run to its end without interference
activate(wf, cfg, env) ==
  [extension |-> [isSfdxProject |-> isSalesforceDXProject(wf),
                  projectOpened |-> isSalesforceDXProject(wf), tasks |-> <<>>],
   provisioned |-> isSalesforceDXProject(wf),
   statusBar |-> updateStatusBarWithResults(createStatusBar(cfg), HealthCheck(env, wf))]

RemoveAt(seq, i) == SubSeq(seq, 1, i - 1) \o SubSeq(seq, i + 1, Len(seq))

\* the handler at position i moves on to its next await, or returns
Proceed(i, pc) ==
  IF pc = "return"
  THEN [extension EXCEPT !.tasks = RemoveAt(extension.tasks, i)]
  ELSE [extension EXCEPT !.tasks[i].pc = pc]

\* updateStatusBar() returns at once when there is no status bar item
ToUpdateStatusBar(i) == Proceed(i, IF statusBar = "none" THEN "return" ELSE "updateStatusBar")

ProvisioningInFlight == {i \in 1..Len(extension.tasks) : extension.tasks[i].pc \in {"runOnStartup", "runForce"}}

HealthCheckInFlight == {i \in 1..Len(extension.tasks) : extension.tasks[i].pc \in {"runHealthCheck", "updateStatusBar"}}

\* handleSfdxProjectChange(isSfdxProject), up to its await of setContext
handleSfdxProjectChange(isSfdxProject) ==
  [extension EXCEPT !.isSfdxProject = isSfdxProject, !.projectOpened = isSfdxProject,
                    !.tasks = Append(extension.tasks, Task("handleSfdxProjectChange", "setContext"))]

\* the watcher on **/sfdx-project.json: a descriptor appears, at the top level of root i or below it
DescriptorCreated(i, top) ==
  /\ Len(extension.tasks) < MaxTasks
  /\ i \in 1..Len(workspaceFolders)
  /\ top => ~workspaceFolders[i]
  /\ workspaceFolders' = IF top THEN [workspaceFolders EXCEPT ![i] = TRUE] ELSE workspaceFolders
  /\ extension' = handleSfdxProjectChange(TRUE)
  /\ UNCHANGED <<fs, dirs, config, broken, lastOp, globalState, now, statusBar, hc, probe>>

\* the same watcher: a descriptor disappears
DescriptorDeleted(i, top) ==
  /\ Len(extension.tasks) < MaxTasks
  /\ i \in 1..Len(workspaceFolders)
  /\ top => workspaceFolders[i]
  /\ workspaceFolders' = IF top THEN [workspaceFolders EXCEPT ![i] = FALSE] ELSE workspaceFolders
  /\ extension' = handleSfdxProjectChange(FALSE)
  /\ UNCHANGED <<fs, dirs, config, broken, lastOp, globalState, now, statusBar, hc, probe>>

\* onDidChangeWorkspaceFolders: the roots are now `wf`
WorkspaceFoldersChanged(wf) ==
  /\ Len(extension.tasks) < MaxTasks
  /\ wf # workspaceFolders
  /\ workspaceFolders' = wf
  /\ extension' = IF isSalesforceDXProject(wf) # extension.isSfdxProject
                  THEN handleSfdxProjectChange(isSalesforceDXProject(wf))
                  ELSE extension
  /\ UNCHANGED <<fs, dirs, config, broken, lastOp, globalState, now, statusBar, hc, probe>>

\* handleSfdxProjectChange after setContext: `if (this.isSfdxProject)` reads the flag as it is now
AfterSetContext(i) ==
  /\ i \in 1..Len(extension.tasks)
  /\ extension.tasks[i].pc = "setContext"
  /\ extension' = IF extension.isSfdxProject THEN Proceed(i, "runOnStartup") ELSE ToUpdateStatusBar(i)
  /\ UNCHANGED <<provVars, globalState, now, statusBar, hc, probe>>

\* the checkEnvironment command, also picked from the action menu: runHealthCheck(false) starts
CheckEnvironmentCommand ==
  /\ Len(extension.tasks) < MaxTasks
  /\ extension' = [extension EXCEPT !.tasks = Append(extension.tasks, Task("checkEnvironment", "runHealthCheck"))]
  /\ UNCHANGED <<provVars, globalState, now, statusBar, hc, probe>>

\* "Force Re-provision Configuration" picked from the action menu: runForce() asks first
ProvisionForceCommand ==
  /\ Len(extension.tasks) < MaxTasks
  /\ extension' = [extension EXCEPT !.tasks = Append(extension.tasks, Task("openActionMenu", "confirm"))]
  /\ UNCHANGED <<provVars, globalState, now, statusBar, hc, probe>>

\* the user answers the confirmation of runForce()
ForceAnswered(i, answer) ==
  /\ i \in 1..Len(extension.tasks)
  /\ extension.tasks[i].pc = "confirm"
  /\ extension' = Proceed(i, IF ForceConfirmed(answer) THEN "runForce" ELSE "return")
  /\ UNCHANGED <<provVars, globalState, now, statusBar, hc, probe>>

\* a provisioning run in flight comes to its end
ProvisioningCompletes(i) ==
  /\ i \in ProvisioningInFlight
  /\ \E r \in {runProvisioning(workspaceFolders, config, broken, fs, dirs,
                                extension.tasks[i].pc = "runForce")} :
       /\ fs' = r.fs
       /\ dirs' = r.dirs
       /\ lastOp' = IF extension.tasks[i].pc = "runForce"
                    THEN RunRecord("runForce", TRUE, YES_OVERWRITE,
                                   [r EXCEPT !.notes = <<"confirm-overwrite">> \o r.notes])
                    ELSE RunRecord("runOnStartup", FALSE, "none", r)
  /\ extension' = IF extension.tasks[i].pc = "runForce" THEN Proceed(i, "return") ELSE ToUpdateStatusBar(i)
  /\ UNCHANGED <<workspaceFolders, config, broken, globalState, now, statusBar, hc, probe>>

\* a health check in flight comes to its end; updateStatusBar() hands its results to the status bar
HealthCheckCompletes(i, env) ==
  /\ i \in HealthCheckInFlight
  /\ statusBar' = IF extension.tasks[i].pc = "updateStatusBar"
                  THEN updateStatusBarWithResults(statusBar, HealthCheck(env, workspaceFolders))
                  ELSE statusBar
  /\ extension' = Proceed(i, "return")
  /\ UNCHANGED <<provVars, globalState, now, hc, probe>>

-----------------------------------------------------------------------------
(* Inputs *)

Ok(out)   == [ok |-> TRUE, stdout |-> out, stderr |-> <<>>]
Fail(out) == [ok |-> FALSE, stdout |-> out, stderr |-> <<"err">>]

Runs(outs) == {Ok(o) : o \in outs} \cup {Fail(o) : o \in outs}

NodeOutputs == SeqsUpTo({"v", "20", "16", ".", WS}, MaxOut)

JavaOutputs == SeqsUpTo({VERSION_QUOTE, QUOTE, "17", "1", "."}, MaxOut)

WhichRuns == {Ok(<<"/usr/bin/java", "\n", "/opt/java">>), Fail(<<>>)}

CLI_VERSION_OUTPUT == <<CLI_PREFIX, "1", ".", "8", ".", "0", "x">>

CliOutputs == SeqsUpTo({CLI_PREFIX, "1", ".", "x"}, MaxOut) \cup {CLI_VERSION_OUTPUT}

PackageOutputs == SeqsUpTo(Range(REQUIRED_PACKAGES) \cup {ALTERNATIVE_APEX, "x"}, MaxOut)

PluginOutputs == SeqsUpTo(Range(REQUIRED_SF_PLUGINS) \cup {"@salesforce/plugin-code-analyzer", "x"}, MaxOut)

\* the runs a whole health check is given: a healthy machine, each dependency failing alone,
\* both runtimes below their floors, and every command failing
JAVA_17 == Ok(<<"openjdk", VERSION_QUOTE, "17", ".", "0", QUOTE>>)
JAVA_8  == Ok(<<VERSION_QUOTE, "1", ".", "8", QUOTE>>)
NODE_20 == Ok(<<"v", "20", ".", "1">>)
NODE_16 == Ok(<<"v", "16", ".", "0">>)

Healthy ==
  [node |-> NODE_20, java |-> JAVA_17, which |-> Ok(<<"/usr/bin/java">>), cli |-> Ok(CLI_VERSION_OUTPUT),
   packages |-> Ok(REQUIRED_PACKAGES), plugins |-> Ok(REQUIRED_SF_PLUGINS)]

HealthEnvs ==
  {Healthy,
   [Healthy EXCEPT !.node = NODE_16],
   [Healthy EXCEPT !.node = Fail(<<>>)],
   [Healthy EXCEPT !.cli = Fail(<<>>)],
   [Healthy EXCEPT !.java = JAVA_8],
   [Healthy EXCEPT !.java = Fail(<<"x">>), !.which = Fail(<<>>)],
   [Healthy EXCEPT !.packages = Fail(<<"@salesforce/cli", "prettier">>)],
   [Healthy EXCEPT !.plugins = Fail(<<>>)],
   [Healthy EXCEPT !.node = NODE_16, !.java = JAVA_8],
   [node |-> Fail(<<>>), java |-> Fail(<<>>), which |-> Fail(<<>>), cli |-> Fail(<<>>),
    packages |-> Fail(<<"x">>), plugins |-> Fail(<<>>)]}

NoTemplates  == [k \in TemplateKeys |-> <<>>]
AllTemplates == [k \in TemplateKeys |-> <<"custom-template">>]

AllOn == [p \in ProvisionerSet |-> TRUE]

\* the switches: all on, one provisioner off, or one provisioner on
Switches ==
  {AllOn} \cup {[AllOn EXCEPT ![p] = FALSE] : p \in ProvisionerSet}
          \cup {[q \in ProvisionerSet |-> q = p] : p \in ProvisionerSet}

DefaultConfig ==
  [master |-> TRUE, switch |-> AllOn, templates |-> NoTemplates,
   showStatusBar |-> TRUE, runHealthCheckOnStartup |-> TRUE]

FileChoices(path) == {Absent} \cup {File(c) : c \in UserContents(path)}

EmptyRoot == [path \in Paths |-> Absent]

AllUserContents == UNION {UserContents(path) : path \in Paths}

\* the roots whose existing managed files are exactly those of E
RootsWith(E) ==
  {[path \in Paths |-> IF path \in E THEN File(c[path]) ELSE Absent] :
     c \in {d \in [E -> AllUserContents] : \A path \in E : d[path] \in UserContents(path)}}

Roots == UNION {RootsWith(E) : E \in {S \in SUBSET Paths : Cardinality(S) <= MaxPreexisting}}

DirsOf(f) ==
  (IF f[DICTIONARY].exists THEN {".cspell"} ELSE {})
  \cup (IF f[VSCODESETTINGS].exists THEN {".vscode"} ELSE {})

FreshInstall ==
  [envCheckPassed |-> FALSE, envCheckTimestamp |-> 0, envCheckCompleted |-> FALSE,
   packagesChecked |-> FALSE, pluginsChecked |-> FALSE]

-----------------------------------------------------------------------------
(* Specifications *)

HealthInit ==
  /\ globalState = FreshInstall
  /\ now = 1
  /\ statusBar = createStatusBar(config)
  /\ hc = Idle
  /\ probe = NoProbe
  /\ extension = NoExtension

\* a root with up to MaxPreexisting managed files, or no workspace at all
RootInit ==
  \/ /\ workspaceFolders = <<TRUE>>
     /\ fs \in Roots
     /\ broken \in {{}} \cup {{path} : path \in Paths}
  \/ /\ workspaceFolders = <<>>
     /\ fs = EmptyRoot
     /\ broken = {}

\* direct calls of the provisioners
InitExec ==
  /\ config \in {[DefaultConfig EXCEPT !.templates = t] : t \in {NoTemplates, AllTemplates}}
  /\ RootInit
  /\ dirs = DirsOf(fs)
  /\ lastOp = NoOp
  /\ HealthInit

NextExec == \E p \in ProvisionerSet, force \in BOOLEAN : ExecuteCall(p, force)

SpecExec == InitExec /\ [][NextExec]_vars

\* the provisioning manager
InitProv ==
  /\ config \in {[DefaultConfig EXCEPT !.master = m, !.switch = sw, !.templates = t] :
                   m \in BOOLEAN, sw \in Switches, t \in {NoTemplates, AllTemplates}}
  /\ RootInit
  /\ dirs = DirsOf(fs)
  /\ lastOp = NoOp
  /\ HealthInit

NextProv ==
  \/ RunOnStartup
  \/ \E answer \in Answers : RunForce(answer)

SpecProv == InitProv /\ [][NextProv]_vars

\* the dependency probes
InitProbe ==
  /\ config = DefaultConfig
  /\ workspaceFolders = <<TRUE>>
  /\ fs = EmptyRoot
  /\ broken = {}
  /\ dirs = {}
  /\ lastOp = NoOp
  /\ HealthInit

NextProbe ==
  \/ \E run \in Runs(NodeOutputs) : ProbeNode(run)
  \/ \E run \in Runs(JavaOutputs), whichRun \in WhichRuns : ProbeJava(run, whichRun)
  \/ \E run \in Runs(CliOutputs) : ProbeCli(run)
  \/ \E run \in Runs(PackageOutputs) : ProbePackages(run)
  \/ \E run \in Runs(PluginOutputs) : ProbePlugins(run)

SpecProbe == InitProbe /\ [][NextProbe]_vars

\* health checks, the startup policy and the status bar
InitHealth ==
  /\ config \in {[DefaultConfig EXCEPT !.showStatusBar = b] : b \in BOOLEAN}
  /\ workspaceFolders = <<TRUE>>
  /\ fs = EmptyRoot
  /\ broken = {}
  /\ dirs = {}
  /\ lastOp = NoOp
  /\ HealthInit

NextHealth ==
  \/ \E env \in HealthEnvs : StartupCheck(env)
  \/ CheckEnvironment
  \/ \E env \in HealthEnvs : VisiblePass(env)
  \/ \E answer \in {"Fix Issues", "Dismiss", "dismissed"} : AnswerSummary(answer)
  \/ \E answer \in {"Check Now", "Dismiss", "dismissed"} : AnswerPrompt(answer)
  \/ \E env \in HealthEnvs : UpdateStatusBar(env)
  \/ \E value \in BOOLEAN, env \in HealthEnvs : ConfigShowStatusBar(value, env)
  \/ Tick

SpecHealth == InitHealth /\ [][NextHealth]_vars

\* what the descriptor of a root can hold
DescriptorObjects ==
  {Descriptor("object", fields, name) :
     fields \in SUBSET {"name", "namespace", "sourceApiVersion", "packageDirectories"},
     name \in {"", "MyProject"}}

Descriptors(present) ==
  IF ~present THEN {Descriptor("absent", {}, "")}
  ELSE {Descriptor("malformed", {}, ""), Descriptor("null", {}, "")}
       \cup {d \in DescriptorObjects : "name" \in d.fields \/ d.name = ""}

DescriptorLists(wf) ==
  {ds \in UNION {[1..n -> UNION {Descriptors(b) : b \in BOOLEAN}] : n \in {Len(wf)}} :
     \A i \in 1..Len(wf) : ds[i] \in Descriptors(wf[i])}

\* workspaces of one or two roots, with and without a project descriptor
RootLists == {<<a>> : a \in BOOLEAN} \cup {<<a, b>> : a \in BOOLEAN, b \in BOOLEAN}

InitRoots ==
  /\ config \in {[DefaultConfig EXCEPT !.templates = t] : t \in {NoTemplates, AllTemplates}}
  /\ workspaceFolders \in RootLists
  /\ fs \in Roots
  /\ broken = {}
  /\ dirs = DirsOf(fs)
  /\ lastOp = NoOp
  /\ HealthInit

NextRoots ==
  \/ ActivateProvisioning
  \/ \E answer \in Answers : RunForce(answer)

SpecRoots == InitRoots /\ [][NextRoots]_vars

\* the managers of packages and plugins next to the environment check and the provisioning
ManageEnvs ==
  {Healthy,
   [Healthy EXCEPT !.cli = Fail(<<>>)],
   [Healthy EXCEPT !.packages = Fail(<<"@salesforce/cli", "prettier">>), !.plugins = Fail(<<>>)]}

\* every confirmation accepted and every install succeeding, the packages declined, the
\* plugins declined, the installs failing
ManageAnswers ==
  {[confirmPackages |-> TRUE, packagesInstall |-> TRUE, confirmPlugins |-> TRUE, pluginsInstall |-> TRUE],
   [confirmPackages |-> FALSE, packagesInstall |-> TRUE, confirmPlugins |-> TRUE, pluginsInstall |-> TRUE],
   [confirmPackages |-> TRUE, packagesInstall |-> TRUE, confirmPlugins |-> FALSE, pluginsInstall |-> TRUE],
   [confirmPackages |-> TRUE, packagesInstall |-> FALSE, confirmPlugins |-> TRUE, pluginsInstall |-> FALSE]}

InitManage ==
  /\ config = DefaultConfig
  /\ workspaceFolders = <<TRUE>>
  /\ fs = EmptyRoot
  /\ broken = {}
  /\ dirs = {}
  /\ lastOp = NoOp
  /\ HealthInit

NextManage ==
  \/ \E env \in ManageEnvs : StartupCheck(env)
  \/ CheckEnvironment
  \/ \E env \in ManageEnvs : VisiblePass(env)
  \/ \E answer \in {"Fix Issues", "Dismiss"} : AnswerSummary(answer)
  \/ \E answer \in {"Check Now", "Dismiss"} : AnswerPrompt(answer)
  \/ \E env \in ManageEnvs, answers \in ManageAnswers : ManagePackages(env, answers)
  \/ \E env \in ManageEnvs, answers \in ManageAnswers : ForceCheckPackages(env, answers)
  \/ \E env \in ManageEnvs, answers \in ManageAnswers : PluginInstall(env, answers)
  \/ RunOnStartup

SpecManage == InitManage /\ [][NextManage]_vars

\* the handlers of the extension after activation on a healthy machine
ExtensionEnvs == {Healthy, [Healthy EXCEPT !.cli = Fail(<<>>)]}

InitExtension ==
  /\ config = DefaultConfig
  /\ workspaceFolders \in RootLists
  /\ broken = {}
  /\ lastOp = NoOp
  /\ \E a \in {activate(workspaceFolders, config, Healthy)} :
     \E r \in {runProvisioning(workspaceFolders, config, broken, EmptyRoot, {}, FALSE)} :
       /\ extension = a.extension
       /\ statusBar = a.statusBar
       /\ fs = IF a.provisioned THEN r.fs ELSE EmptyRoot
       /\ dirs = IF a.provisioned THEN r.dirs ELSE {}
  /\ globalState = MarkPassed(FreshInstall, 1)
  /\ now = 1
  /\ hc = Idle
  /\ probe = NoProbe

NextExtension ==
  \/ \E i \in 1..2, top \in BOOLEAN : DescriptorCreated(i, top)
  \/ \E i \in 1..2, top \in BOOLEAN : DescriptorDeleted(i, top)
  \/ \E wf \in RootLists : WorkspaceFoldersChanged(wf)
  \/ \E i \in 1..MaxTasks : AfterSetContext(i)
  \/ CheckEnvironmentCommand
  \/ ProvisionForceCommand
  \/ \E i \in 1..MaxTasks, answer \in Answers : ForceAnswered(i, answer)
  \/ \E i \in 1..MaxTasks : ProvisioningCompletes(i)
  \/ \E i \in 1..MaxTasks, env \in ExtensionEnvs : HealthCheckCompletes(i, env)

SpecExtension == InitExtension /\ [][NextExtension]_vars

\* the project detector
InitProject ==
  /\ config = DefaultConfig
  /\ workspaceFolders \in RootLists \cup {<<>>}
  /\ fs = EmptyRoot
  /\ broken = {}
  /\ dirs = {}
  /\ lastOp = NoOp
  /\ HealthInit

NextProject == \E ds \in DescriptorLists(workspaceFolders) : ShowProjectInfo(ds)

SpecProject == InitProject /\ [][NextProject]_vars


-----------------------------------------------------------------------------
(* Properties of the provisioners (SpecExec) *)

NoFaultOnRoot == workspaceFolders # <<>> /\ ~lastOp.fault

\* C1: for every provisioner, two consecutive execute(force=false) calls on a root that
\* held none of its managed files return a non-empty list, then an empty list
C1_TwiceOnEmptyRoot ==
  ( /\ lastOp.op = "execute" /\ ~lastOp.force
    /\ lastOp.prev.op = "execute" /\ lastOp.prev.prov = lastOp.prov /\ ~lastOp.prev.force
    /\ lastOp.prev.preAbsent
    /\ NoFaultOnRoot )
  => /\ lastOp.prev.gaveList /\ lastOp.prev.nonEmpty
     /\ lastOp.retDefined /\ ~lastOp.threw /\ lastOp.ret = <<>>

\* C2: for every provisioner, execute(force=true) overwrites each managed file that
\* already exists with the template and returns its relative path
C2_ForceOverwrites ==
  (lastOp.op = "execute" /\ lastOp.force /\ NoFaultOnRoot)
  => \A path \in Managed(lastOp.prov) \cap lastOp.pre :
       /\ fs[path] = File(Template(config, path))
       /\ lastOp.retDefined
       /\ path \in Range(lastOp.ret)

\* C6: execute(force=false) of the spell checker on a cspell.json holding the legacy regex
\* replaces the literal, leaves the rest of the file alone and returns "cspell.json (migrated)";
\* a second execute(force=false) does not write cspell.json again
C6_Migration ==
  /\ ( /\ lastOp.op = "execute" /\ lastOp.prov = "spellChecker" /\ ~lastOp.force
       /\ CSPELLJSON \in lastOp.pre /\ Includes(lastOp.preCspell, badRegex)
       /\ NoFaultOnRoot )
     => /\ ~Includes(fs[CSPELLJSON].data, badRegex)
        /\ Len(fs[CSPELLJSON].data) = Len(lastOp.preCspell)
        /\ \A i \in 1..Len(lastOp.preCspell) :
             fs[CSPELLJSON].data[i] =
               (IF lastOp.preCspell[i] = badRegex THEN goodRegex ELSE lastOp.preCspell[i])
        /\ lastOp.retDefined
        /\ MIGRATED \in Range(lastOp.ret)
  /\ ( /\ lastOp.op = "execute" /\ lastOp.prov = "spellChecker" /\ ~lastOp.force
       /\ lastOp.prev.op = "execute" /\ lastOp.prev.prov = "spellChecker" /\ ~lastOp.prev.force
       /\ lastOp.prev.legacy
       /\ NoFaultOnRoot )
     => fs[CSPELLJSON].data = lastOp.preCspell

-----------------------------------------------------------------------------
(* Properties of the provisioning manager (SpecProv) *)

AllSwitchesOn == config.master /\ config.switch = AllOn /\ config.templates = NoTemplates

\* C3: on an empty root with every switch on, one runOnStartup() leaves all seven managed
\* files present with the default content and reports each of their paths; the next
\* runOnStartup() reports nothing and writes nothing
C3_StartupEndToEnd ==
  /\ ( /\ lastOp.op = "runOnStartup" /\ lastOp.pre = {}
       /\ AllSwitchesOn /\ NoFaultOnRoot )
     => \A path \in Paths :
          /\ fs[path] = File(Template(config, path))
          /\ path \in Range(lastOp.all)
  /\ ( /\ lastOp.op = "runOnStartup"
       /\ lastOp.prev.op = "runOnStartup" /\ lastOp.prev.preAbsent
       /\ AllSwitchesOn /\ NoFaultOnRoot )
     => /\ lastOp.all = <<>>
        /\ Existing(fs) = lastOp.pre

\* C4: a runForce() whose confirmation is answered "Cancel" or dismissed executes no
\* provisioner and leaves every file as it was; a forced run happens only after "Yes, Overwrite"
C4_ForceOnlyWhenConfirmed ==
  [][ /\ (lastOp'.op = "runForce" /\ lastOp'.answer # YES_OVERWRITE)
         => (fs' = fs /\ dirs' = dirs /\ ~lastOp'.ran /\ lastOp'.outcomes = <<>>)
      /\ (lastOp'.force /\ lastOp'.ran) => lastOp'.answer = YES_OVERWRITE ]_vars

\* a declined runForce() on a root holding a customised file the run would have overwritten
C4_Witness ==
  /\ lastOp.op = "runForce" /\ lastOp.answer = "Cancel"
  /\ isEnabled(config, "editorConfig")
  /\ fs[EDITORCONFIG] = File(<<"x">>)

\* C5: a run with force=false leaves every managed file that existed before it byte for
\* byte as it was, except cspell.json when it holds the legacy regex
C5_NonForceKeepsExistingFiles ==
  [][ lastOp'.op = "runOnStartup"
      => \A path \in Paths :
           ( /\ fs[path].exists
             /\ ~(path = CSPELLJSON /\ Includes(fs[path].data, badRegex)) )
           => fs'[path] = fs[path] ]_vars

\* a non-forced run that executed the prettier provisioner over a customised .prettierrc
C5_Witness ==
  /\ lastOp.op = "runOnStartup"
  /\ PRETTIERRC \in lastOp.pre
  /\ fs[PRETTIERRC] = File(<<"x">>)
  /\ \E i \in 1..Len(lastOp.outcomes) :
       lastOp.outcomes[i].prov = "prettier" /\ lastOp.outcomes[i].ret = <<PRETTIERIGNORE>>

ReturnedList(o) == IF ~o.threw /\ o.retDefined THEN o.ret ELSE <<>>

\* C7: a provisioner that throws does not stop the run: every enabled provisioner is
\* executed, in registration order, the run completes, and the aggregated list is the
\* concatenation of the lists returned by the provisioners that did not throw
C7_FaultIsolation ==
  (lastOp.ran /\ lastOp.op \in {"runOnStartup", "runForce"})
  => /\ lastOp.completed
     /\ [i \in 1..Len(lastOp.outcomes) |-> lastOp.outcomes[i].prov]
          = SelectSeq(Provisioners, LAMBDA p : isEnabled(config, p))
     /\ lastOp.all = Concat([i \in 1..Len(lastOp.outcomes) |-> ReturnedList(lastOp.outcomes[i])])

\* a run in which one provisioner threw and a later one still ran and contributed its files
C7_Witness ==
  /\ lastOp.ran
  /\ \E i, j \in 1..Len(lastOp.outcomes) :
       /\ i < j
       /\ lastOp.outcomes[i].threw
       /\ ~lastOp.outcomes[j].threw
       /\ lastOp.outcomes[j].ret # <<>>
       /\ Range(lastOp.outcomes[j].ret) \subseteq Range(lastOp.all)

-----------------------------------------------------------------------------
(* Properties of the dependency probes (SpecProbe) *)

Has(r, field) == field \in r.fields

IsFailureRecord(r) ==
  /\ r.kind = "status"
  /\ Has(r, "installed") /\ ~r.installed
  /\ Has(r, "valid") /\ ~r.valid
  /\ Has(r, "error") /\ r.error # <<>>

-----------------------------------------------------------------------------
(* Properties of the status bar and the startup policy (SpecHealth) *)

Presented == hc.pc = "idle" /\ hc.origin \in {"startup", "updateStatusBar"} /\ statusBar # "none"

\* C9: the status bar shows exactly one of ok / warning / error for the results it was
\* given, and error whenever node or the Salesforce CLI is not installed
C9_Classification ==
  Presented =>
    /\ statusBar \in {"ok", "warning", "error"}
    /\ (~hc.startup.node.installed \/ ~hc.startup.salesforceCLI.installed) => statusBar = "error"

\* results in which only the Salesforce CLI is missing, shown as error
C9_Witness ==
  /\ Presented
  /\ statusBar = "error"
  /\ hc.startup.node.installed /\ ~hc.startup.salesforceCLI.installed
  /\ hc.startup.packages.allInstalled /\ hc.startup.sfPlugins.allInstalled

FreshBefore ==
  /\ globalState.envCheckPassed
  /\ globalState.envCheckTimestamp # 0
  /\ now - globalState.envCheckTimestamp < RECHECK_AFTER_SUCCESS

\* C10: with envCheckPassed persisted and its timestamp inside the freshness window,
\* runStartupCheck() shows no prompt and no result dialog, whatever the probes return
C10_FreshStartupShowsNoDialog ==
  [][ (FreshBefore /\ \E env \in HealthEnvs : StartupCheck(env))
      => (hc'.pc = "idle" /\ hc'.shown \cap Dialogs = {}) ]_vars

\* a startup check inside the window whose probes found critical issues
C10_Witness ==
  /\ hc.origin = "startup" /\ hc.fresh /\ hc.pc = "idle"
  /\ hasIssues(hc.startup)
  /\ hc.shown = {"progress"}


\* C11: inside the freshness window runStartupCheck() runs no dependency probe and its
\* result is marked as cached
C11_FreshStartupSkipsProbes ==
  (hc.origin = "startup" /\ hc.fresh) => (hc.passes = 0 /\ hc.startup.cached)

SpelledClean(r) ==
  /\ r.node.installed /\ r.node.valid
  /\ r.java.installed /\ r.java.valid
  /\ r.salesforceCLI.installed
  /\ r.packages.allInstalled /\ r.sfPlugins.allInstalled

Persisted(gs, t) == gs.envCheckPassed /\ gs.envCheckTimestamp = t /\ gs.envCheckCompleted

\* C12: every runStartupCheck() call whose probe result is fully clean ends with
\* envCheckPassed true, envCheckTimestamp the time of that call, envCheckCompleted true
C12_CleanResultPersisted ==
  [][ ((\E env \in HealthEnvs : StartupCheck(env)) /\ SpelledClean(hc'.startup))
      => Persisted(globalState', now) ]_vars

\* C12, amended: the same for every call outside the freshness window; a call inside
\* the window leaves the persisted values, the earlier timestamp included, as they were
C12_CleanResultPersistedAmended ==
  [][ ((\E env \in HealthEnvs : StartupCheck(env)) /\ SpelledClean(hc'.startup))
      => IF FreshBefore
         THEN globalState' = globalState
         ELSE Persisted(globalState', now) ]_vars

\* a clean startup check outside the window, at a later time than the first one
C12_Witness ==
  /\ hc.origin = "startup" /\ ~hc.fresh /\ hc.pc = "idle"
  /\ SpelledClean(hc.startup)
  /\ Persisted(globalState, now)
  /\ now > 1

WarningsOnly(r) ==
  /\ r.node.installed /\ r.salesforceCLI.installed
  /\ r.packages.allInstalled /\ r.sfPlugins.allInstalled
  /\ (~r.node.valid \/ ~r.java.installed \/ ~r.java.valid)

\* C13: a runStartupCheck() that finds warnings but no critical issue shows no
\* interactive health-check result and no prompt
C13_WarningsOnlyPassive ==
  [][ ((\E env \in HealthEnvs : StartupCheck(env)) /\ WarningsOnly(hc'.startup))
      => (hc'.pc = "idle" /\ hc'.shown \cap Dialogs = {}) ]_vars

\* C13, amended: so it is once a check has completed before (envCheckCompleted set); on
\* the first run runStartupCheck() goes on to the full visible check
C13_WarningsOnlyPassiveAmended ==
  [][ ((\E env \in HealthEnvs : StartupCheck(env)) /\ WarningsOnly(hc'.startup))
      => IF globalState.envCheckCompleted \/ FreshBefore
         THEN hc'.pc = "idle" /\ hc'.shown \cap Dialogs = {}
         ELSE hc'.pc = "pass" /\ hc'.markCompleted ]_vars

\* a startup check with warnings only, after a completed one: nothing shown, passed reset
C13_Witness ==
  /\ hc.origin = "startup" /\ ~hc.fresh /\ hc.pc = "idle"
  /\ WarningsOnly(hc.startup)
  /\ globalState.envCheckCompleted /\ ~globalState.envCheckPassed
  /\ hc.shown = {"progress"}


-----------------------------------------------------------------------------
(* Further properties of the provisioners and their manager *)

Executed(o) == {o.outcomes[i].prov : i \in 1..Len(o.outcomes)}

\* C14: in every provisioning run a provisioner's execute is invoked if and only if the
\* master switch and the provisioner's own switch are both on; with the master switch off
\* no provisioner executes and no file is written
C14_SwitchesDecide ==
  [][ (lastOp'.ran /\ lastOp'.op \in {"runOnStartup", "runForce"})
      => /\ \A p \in ProvisionerSet :
              (p \in Executed(lastOp')) <=> (config.master /\ config.switch[p])
         /\ ~config.master => (Executed(lastOp') = {} /\ fs' = fs /\ dirs' = dirs) ]_vars

\* a run on an empty root with the master switch off and every provisioner's switch on
C14_Witness ==
  /\ lastOp.ran /\ lastOp.op = "runOnStartup"
  /\ ~config.master /\ config.switch = AllOn
  /\ workspaceFolders # <<>> /\ lastOp.pre = {}
  /\ lastOp.outcomes = <<>>
  /\ fs = EmptyRoot

\* C15: for every provisioner, execute called when the workspace has no root folder
\* writes nothing, does not throw and returns an empty sequence
C15_NoRootNoOp ==
  (lastOp.op = "execute" /\ workspaceFolders = <<>>)
  => /\ ~lastOp.threw
     /\ lastOp.retDefined /\ lastOp.ret = <<>>
     /\ Existing(fs) = lastOp.pre /\ dirs = {}

FilesChanged == Existing(fs) # lastOp.pre \/ fs[CSPELLJSON].data # lastOp.preCspell

\* C17: one runOnStartup() shows exactly one notification when at least one file was
\* created or changed in that run, and none when nothing changed
C17_OneNotification ==
  lastOp.op = "runOnStartup"
  => IF FilesChanged THEN Len(lastOp.notes) = 1 ELSE lastOp.notes = <<>>


FilesWritten == lastOp.ran /\ FilesChanged

\* C16: in a workspace with at least one recognized project, every file a provisioner
\* writes is written under a root that holds sfdx-project.json at its top level
C16_WritesUnderProjectRoot ==
  (FilesWritten /\ isSalesforceDXProject(workspaceFolders))
  => workspaceFolders[rootUri(workspaceFolders)]


-----------------------------------------------------------------------------
(* Further properties of the dependency probes *)

UnmatchedSuccess == probe.kind \in {"java", "cli"} /\ probe.ok /\ ~probe.matched

\* C20: when the command of checkJava or checkSalesforceCLI succeeds but its output does
\* not match the version pattern, the probe returns installed true with version "unknown"
C20_UnmatchedVersionUnknown ==
  UnmatchedSuccess
  => /\ probe.result.installed
     /\ Has(probe.result, "version") /\ probe.result.version = <<"unknown">>


-----------------------------------------------------------------------------
(* Properties of the project detector (SpecProject) *)

Asked == probe.kind = "projectInfo"

DefaultInfo(i) ==
  [isNull |-> FALSE, path |-> i, name |-> "Unnamed Project", namespace |-> "",
   sourceApiVersion |-> "unknown", packageDirectories |-> <<>>]

FirstExisting(ds) == Min({i \in 1..Len(ds) : ds[i].kind # "absent"})

Parses(d) == d.kind = "object"

-----------------------------------------------------------------------------
(* Properties of the persisted state (SpecManage) *)

EnvKeys(gs) == <<gs.envCheckPassed, gs.envCheckTimestamp, gs.envCheckCompleted>>

HealthStep ==
  \/ \E env \in ManageEnvs : StartupCheck(env)
  \/ CheckEnvironment
  \/ \E env \in ManageEnvs : VisiblePass(env)
  \/ \E answer \in {"Fix Issues", "Dismiss"} : AnswerSummary(answer)
  \/ \E answer \in {"Check Now", "Dismiss"} : AnswerPrompt(answer)

ManageStep ==
  \E env \in ManageEnvs, answers \in ManageAnswers :
    ManagePackages(env, answers) \/ ForceCheckPackages(env, answers)

InstallStep == \E env \in ManageEnvs, answers \in ManageAnswers : PluginInstall(env, answers)

-----------------------------------------------------------------------------
(* Properties of the package probe (SpecProbe) *)

\* the text parsePackageOutput is given for a run of the listing command
PackageText(run) ==
  IF execCommand(CMD_NPM_LIST, run).threw
  THEN execCommand(CMD_NPM_LIST, run).message
  ELSE execCommand(CMD_NPM_LIST, run).value

\* the listing names the alternate package and does not name the requirement itself
OnlyAlternative(text) ==
  /\ \E i \in 1..Len(text) : text[i] = ALTERNATIVE_APEX
  /\ \A i \in 1..Len(text) : text[i] # "prettier-plugin-apex"

RecordedAsAlternative(r) ==
  /\ \E i \in 1..Len(r.installedList) : r.installedList[i] = "prettier-plugin-apex (alternative)"
  /\ \A i \in 1..Len(r.missing) : r.missing[i] # "prettier-plugin-apex"

\* C21: when the probe text contains the alternate package name and the requirement
\* "prettier-plugin-apex" is not listed itself, the requirement is removed from missing and
\* recorded in installed as "prettier-plugin-apex (alternative)"
C21_AlternativeRecorded ==
  [][ \A run \in Runs(PackageOutputs) :
        (ProbePackages(run) /\ OnlyAlternative(PackageText(run)))
          => RecordedAsAlternative(probe'.result) ]_vars


-----------------------------------------------------------------------------
(* Properties of the remediation (SpecHealth) *)

REMEDY_ORDER == <<"fix-node", "fix-java", "fix-cli", "fix-packages", "fix-plugins">>

\* the prompts come in the order node, java, CLI, packages, plugins, none of them twice
InRemedyOrder(remedies) ==
  \A i, j \in 1..Len(remedies) :
    i < j => IndexFrom(REMEDY_ORDER, remedies[i], 1) < IndexFrom(REMEDY_ORDER, remedies[j], 1)

\* C22: after "Fix Issues" the remediation prompts run in the order node, java, CLI,
\* packages, plugins and the full health check is re-run exactly once: one non-silent
\* runHealthCheck invocation performs at most two probe passes, whatever the user answers
C22_AtMostTwoPasses ==
  /\ InRemedyOrder(hc.remedies)
  /\ hc.origin = "command" => hc.passes <= 2

\* C22, amended: every "Fix Issues" answer runs the remediation prompts in the order node,
\* java, CLI, packages, plugins and is followed by exactly one further probe pass, whose
\* summary offers "Fix Issues" again: an invocation that got n such answers performs n + 1
\* probe passes
C22_OnePassPerFixIssues ==
  [][ /\ (hc.pc = "summary" /\ hc'.pc = "pass")
           => /\ hc'.depth = hc.depth + 1 /\ hc'.passes = hc.passes
              /\ InRemedyOrder(hc'.remedies)
              /\ \A k \in 1..Len(REMEDY_ORDER) :
                   (\E i \in 1..Len(hc'.remedies) : hc'.remedies[i] = REMEDY_ORDER[k])
                     <=> CASE k = 1 -> ~hc.results.node.installed \/ ~hc.results.node.valid
                           [] k = 2 -> ~hc.results.java.installed \/ ~hc.results.java.valid
                           [] k = 3 -> ~hc.results.salesforceCLI.installed
                           [] k = 4 -> ~hc.results.packages.allInstalled
                           [] k = 5 -> ~hc.results.sfPlugins.allInstalled
      /\ hc.pc = "pass" => hc'.passes = hc.passes + 1
      /\ (hc'.origin = "command" /\ hc'.pc = "pass") => hc'.passes = hc'.depth
      /\ (hc'.origin = "command" /\ hc'.pc = "summary") => hc'.passes = hc'.depth + 1 ]_vars

\* a "Check Environment Health" invocation that has made three probe passes, the last
\* two after remediation prompts for java and the CLI in that order
C22_Witness ==
  /\ hc.origin = "command"
  /\ hc.passes = 3
  /\ hc.pc = "summary"
  /\ hc.depth = 2
  /\ {"fix-java", "fix-cli"} \subseteq Range(fixEnvironmentIssues(hc.results))


-----------------------------------------------------------------------------
(* Properties of the extension's handlers (SpecExtension) *)

\* C23: at most one health-check run is in flight at any time and at most one provisioning
\* run is in flight at any time
C23_OneRunInFlight ==
  /\ Cardinality(HealthCheckInFlight) <= 1
  /\ Cardinality(ProvisioningInFlight) <= 1

ProjectEvent ==
  \/ \E i \in 1..2, top \in BOOLEAN : DescriptorCreated(i, top) \/ DescriptorDeleted(i, top)
  \/ \E wf \in RootLists : WorkspaceFoldersChanged(wf)

ProvisioningTriggered ==
  \E i \in 1..MaxTasks :
    AfterSetContext(i) /\ Len(extension'.tasks) >= i /\ extension'.tasks[i].pc = "runOnStartup"

\* C27: once a descriptor create/delete event or a workspace-folder change is handled, the
\* isSfdxProject flag and the sfdx:project_opened context equal isSalesforceDXProject(), and
\* an event triggers provisioning only when that holds
C27_FlagFollowsDetection ==
  [][ /\ ProjectEvent
        => /\ extension'.isSfdxProject = isSalesforceDXProject(workspaceFolders')
           /\ extension'.projectOpened = isSalesforceDXProject(workspaceFolders')
      /\ ProvisioningTriggered => isSalesforceDXProject(workspaceFolders) ]_vars


-----------------------------------------------------------------------------
(* Properties of the persisted environment keys (SpecHealth) *)

\* C24: after any sequence of runStartupCheck() calls, envCheckPassed = true implies that
\* envCheckCompleted is true and envCheckTimestamp is set; and envCheckCompleted, once
\* true, never becomes false again
C24_PassedImpliesCompleted ==
  /\ [](globalState.envCheckPassed
          => globalState.envCheckCompleted /\ globalState.envCheckTimestamp # 0)
  /\ [][globalState.envCheckCompleted => globalState'.envCheckCompleted]_vars

\* a startup check that found something after an earlier one had passed: the pass is
\* withdrawn, its timestamp and the completed mark stay
C24_Witness ==
  /\ hc.origin = "startup" /\ hc.pc = "idle"
  /\ hasIssues(hc.startup) \/ hasWarnings(hc.startup)
  /\ ~globalState.envCheckPassed
  /\ globalState.envCheckCompleted
  /\ globalState.envCheckTimestamp # 0

\* C25: after every runStartupCheck() call whose probe pass finds a critical issue or a
\* warning, envCheckPassed is false, also when the call starts with envCheckPassed = true
\* and a timestamp inside the freshness window
C25_IssuesResetPassed ==
  [][ ((\E env \in HealthEnvs : StartupCheck(env))
         /\ (hasIssues(hc'.startup) \/ hasWarnings(hc'.startup)))
      => ~globalState'.envCheckPassed ]_vars

\* C25, amended: so it is for a call that starts outside the freshness window or without
\* a recorded pass; a call that starts inside the window returns the probe results and
\* leaves the persisted state as it was, envCheckPassed = true included
C25_IssuesResetPassedOutsideWindow ==
  [][ ((\E env \in HealthEnvs : StartupCheck(env))
         /\ (hasIssues(hc'.startup) \/ hasWarnings(hc'.startup)))
      => IF FreshBefore
         THEN globalState' = globalState /\ globalState'.envCheckPassed
         ELSE ~globalState'.envCheckPassed ]_vars

\* a startup check outside the window, after a recorded pass, has found a critical issue
\* and withdrawn the pass
C25_Witness ==
  /\ hc.origin = "startup" /\ ~hc.fresh
  /\ hasIssues(hc.startup)
  /\ globalState.envCheckTimestamp # 0 /\ now - globalState.envCheckTimestamp >= RECHECK_AFTER_SUCCESS
  /\ ~globalState.envCheckPassed

\* C26: whenever no health check is in flight and the status bar item exists, the state
\* it shows is the classification of the most recently completed health-check result, also
\* of a check run by the command or re-run after "Fix Issues" or "Check Now"
C26_StatusBarShowsLatest ==
  (hc.pc = "idle" /\ statusBar # "none" /\ hc.latest.class # "none")
    => statusBar = hc.latest.class

\* C28: for every health-check result the severity of the summary agrees with the
\* status-bar classification: the summary is an error exactly when the status bar is
\* error, and a warning exactly when the status bar is warning
C28_SummaryAgreesWithStatusBar ==
  hc.latest.display # "none"
    => /\ hc.latest.display = "summary-error" <=> hc.latest.class = "error"
       /\ hc.latest.display = "summary-warning" <=> hc.latest.class = "warning"

\* C29: checkPackages() reports a required package as installed only if its identifier
\* occurs in the standard output of the listing command; when the command fails with empty
\* standard output, every required package is reported missing and allInstalled is false
C29_InstalledOnlyFromStdout ==
  [][ \A run \in Runs(PackageOutputs) :
        ProbePackages(run)
          => /\ \A i \in 1..Len(probe'.result.installedList) :
                  IncludesText(run.stdout, probe'.result.installedList[i])
             /\ (~run.ok /\ run.stdout = <<>>)
                  => probe'.result.missing = REQUIRED_PACKAGES /\ ~probe'.result.allInstalled ]_vars


-----------------------------------------------------------------------------
(* Properties of the forced run's summary (SpecProv) *)

Notified(note) == \E i \in 1..Len(lastOp.notes) : lastOp.notes[i] = note

\* C30: after a confirmed runForce(), "All files are already up to date." is shown only if
\* no provisioner wrote any file during that run; whenever at least one file was written
\* the message reports the re-provisioned files instead
C30_UpToDateOnlyWhenNothingWritten ==
  (lastOp.op = "runForce" /\ lastOp.ran)
    => /\ Notified("up-to-date") => ~FilesChanged
       /\ FilesChanged => Notified("re-provisioned")


====
